---- MODULE Spec2Model ----
(***************************************************************************)
(* A model of parkinglot.py: a two-level parking lot whose spots are       *)
(* claimed under a per-spot lock, a ticket registry, and the threads that  *)
(* call park_vehicle and exit_vehicle concurrently.  A step of a thread    *)
(* changes one piece of shared data (a spot's lock and flag, or the        *)
(* registry), so that the interleavings of the threads are the model's     *)
(* behaviours.  What a thread does on its own locals and on data that      *)
(* never changes (a spot's id and type, the list of spots) is folded into  *)
(* the step that follows it, and so is taking a lock.  The clock counts    *)
(* whole hours; it advances between two readings by any amount, and a      *)
(* reading sees what it has reached.                                       *)
(*                                                                         *)
(* Specifications:                                                         *)
(*   Spec      the lot constructed once; any interleaving of park_vehicle  *)
(*             and exit_vehicle calls, within one hour                     *)
(*   SpecSeq   the same calls made one at a time, over MaxTime hours       *)
(*   SpecFair  Spec with every thread scheduled fairly                     *)
(*   SpecLot   from the class without an object: the threads also call     *)
(*             the constructor and VehicleFactory.create                   *)
(*   SpecSpot  assign_spot and release_spot called directly on the spots   *)
(***************************************************************************)
EXTENDS Integers, Sequences, FiniteSets, TLC

\* ------------------------------------------------------------------ bounds
NumThreads == 2      \* threads calling into the lot
MaxSpots == 1        \* per-level count of a spot type that a configuration has
MaxCalls == 3        \* calls of park_vehicle and exit_vehicle in one behaviour
MaxTime == 2         \* hours that a run lasts at most

\* -------------------------------------------------------- program constants
NumLevels == 2

\* ParkingLot._instance: None, and the object that __new__ makes.
NoInstance == 0
TheInstance == 1

Threads == 1..NumThreads
NoThread == 0

SpotType == {"CAR", "BUS", "MOTORCYCLE"}

\* The order in which a configuration's items are laid out on a level.
ConfigOrder == <<"CAR", "BUS", "MOTORCYCLE">>

Plates == {"ABC123"}

\* VehicleFactory.create: the vehicles the factory can build.
Vehicles == [vehicle_id : Plates, kind : {"car", "bus", "motorcycle"}]

\* The type tags a caller passes to VehicleFactory.create.
Tags == {"car", "Bus", "MOTORCYCLE", "boat"}

\* vtype.lower()
lower(vtype) ==
    CASE vtype = "Bus" -> "bus"
      [] vtype = "MOTORCYCLE" -> "motorcycle"
      [] OTHER -> vtype

\* The keys of mapping, lines 43-47.
mapping == {"car", "bus", "motorcycle"}

required_spot_type(v) ==
    CASE v.kind = "car" -> "CAR"
      [] v.kind = "bus" -> "BUS"
      [] v.kind = "motorcycle" -> "MOTORCYCLE"

\* st.name[:1]
FirstLetter(st) ==
    CASE st = "CAR" -> "C"
      [] st = "BUS" -> "B"
      [] st = "MOTORCYCLE" -> "M"

\* An id whose index counts from 0.
SpotIdFromZero(level_id, st, i) ==
    "L" \o ToString(level_id) \o "-" \o FirstLetter(st) \o ToString(i - 1)

\* f"L{level_id}-{st.name[:1]}{i + 1}", line 81; i is the index counted from 1.
SpotId(level_id, st, i) == "L" \o ToString(level_id) \o "-" \o FirstLetter(st) \o ToString(i)

ParkingSpot(spot_id, spot_type) ==
    [spot_id |-> spot_id, spot_type |-> spot_type, is_occupied |-> FALSE, lock |-> NoThread]

RECURSIVE SpotsOfType(_, _, _)
SpotsOfType(level_id, st, count) ==
    IF count = 0 THEN <<>>
    ELSE Append(SpotsOfType(level_id, st, count - 1), ParkingSpot(SpotId(level_id, st, count), st))

RECURSIVE LevelSpots(_, _, _)
LevelSpots(level_id, spots_per_type, k) ==
    IF k = 0 THEN <<>>
    ELSE LevelSpots(level_id, spots_per_type, k - 1)
         \o SpotsOfType(level_id, ConfigOrder[k], spots_per_type[ConfigOrder[k]])

Level(level_id, spots_per_type) == LevelSpots(level_id, spots_per_type, Len(ConfigOrder))

\* The configurations a lot is constructed with: a level has no spot of a
\* type, or MaxSpots of them.
Configs == [SpotType -> {0, MaxSpots}]

\* A levels_config of None, or an empty one.
NoConfig == << >>

\* The arguments a thread passes to ParkingLot(): none, and the configurations
\* with car spots only and with spots of every type.
ConstructorArgs ==
    {NoConfig} \cup {c \in Configs : c["CAR"] = MaxSpots /\ c["BUS"] = c["MOTORCYCLE"]}

\* ParkingLot.__init__, line 124.
default_config == [st \in SpotType |-> CASE st = "CAR" -> 10 [] st = "BUS" -> 2 [] st = "MOTORCYCLE" -> 5]

\* levels_config or default_config, line 125.
ConfigOr(levels_config) ==
    IF DOMAIN levels_config = {} THEN default_config ELSE levels_config

ParkingLotLevels(config) == [l \in 1..NumLevels |-> Level(l, config)]

\* ------------------------------------------------------------------- state
VARIABLES
    levels,     \* ParkingLot.levels: per level, the sequence of its spots
    tickets,    \* ParkingLot.tickets: ticket id -> Ticket
    clock,      \* the last reading of datetime.now()
    uuids,      \* number of uuid4 values drawn so far
    pc,         \* per thread: where it stands in its call
    frame,      \* per thread: the locals of its call
    result,     \* per thread: what its last call returned or raised
    consumed,   \* ticket ids that exit_vehicle has popped from the registry
    calls,      \* number of calls started so far
    wins,       \* per spot: assign_spot calls that returned True since its last release_spot
    log,        \* the completed calls of a sequential run, in order
    sequential, \* whether the callers make their calls one at a time
    horizon,    \* the hour at which the run ends
    instance,   \* ParkingLot._instance: the one ParkingLot object, or NoInstance
    initialized \* whether the object has the attribute _initialized

vars == <<levels, tickets, clock, uuids, pc, frame, result, consumed, calls, wins, log, sequential, horizon,
         instance, initialized>>

NoTicket == [ticket_id |-> 0, vehicle_id |-> "", spot_id |-> "", entry_time |-> 0]
NoVehicle == [vehicle_id |-> "", kind |-> ""]
NoResult == [kind |-> "None"]

NoSpot == [spot_id |-> "", spot_type |-> "", is_occupied |-> FALSE, lock |-> NoThread]

\* An id no ticket ever carries (a fabricated ticket id).
FabricatedId == 0

\* The locals of a call: its name and argument, the position of its scan, what
\* it has computed, and what it has done so far to the spots and the registry
\* (claims: assign_spot calls that returned True; released: release_spot calls;
\* registered: tickets put in the registry; outstanding: whether the ticket id
\* of an exit_vehicle call was in the registry when the call was made).
EmptyFrame ==
    [op |-> "", vehicle |-> NoVehicle, ticket_id |-> FabricatedId, outstanding |-> FALSE,
     level |-> 1, index |-> 1, ticket |-> NoTicket, exit_time |-> 0, amount |-> 0,
     claims |-> 0, released |-> 0, registered |-> 0,
     levels_config |-> NoConfig, later |-> FALSE, spot |-> NoSpot]

\* No call has been made.
NoCalls ==
    /\ clock = 0
    /\ uuids = 0
    /\ pc = [t \in Threads |-> "idle"]
    /\ frame = [t \in Threads |-> EmptyFrame]
    /\ result = [t \in Threads |-> NoResult]
    /\ consumed = {}
    /\ calls = 0
    /\ log = << >>

NoWins(lv) == [l \in 1..NumLevels |-> [i \in 1..Len(lv[l]) |-> 0]]

\* The state after ParkingLot(config) has been constructed, once.
Start ==
    /\ \E config \in Configs :
         /\ levels = ParkingLotLevels(config)
         /\ wins = NoWins(ParkingLotLevels(config))
    /\ tickets = << >>
    /\ instance = TheInstance
    /\ initialized = TRUE
    /\ NoCalls

\* The state before ParkingLot is called for the first time: the class has no
\* object, and there are no levels and no registry.
NoLevels == [l \in 1..NumLevels |-> << >>]

InitLot ==
    /\ levels = NoLevels
    /\ wins = NoWins(NoLevels)
    /\ tickets = << >>
    /\ instance = NoInstance
    /\ initialized = FALSE
    /\ NoCalls
    /\ sequential = FALSE
    /\ horizon = 0

\* Threads that call at any time, all within the hour.
Init == Start /\ sequential = FALSE /\ horizon = 0

\* Threads that make a call only when no call is in progress, over MaxTime hours.
InitSeq == Start /\ sequential = TRUE /\ horizon = MaxTime

\* ----------------------------------------------------------------- helpers
AllSpots == UNION {{<<l, i>> : i \in 1..Len(levels[l])} : l \in 1..NumLevels}

SpotAt(l, i) == levels[l][i]

Max(a, b) == IF a >= b THEN a ELSE b

\* What is left of a call's locals once it has returned: its name and
\* argument, and the count of what it did.
AfterReturn(f) ==
    [EmptyFrame EXCEPT !.op = f.op, !.vehicle = f.vehicle, !.ticket_id = f.ticket_id,
                       !.outstanding = f.outstanding, !.claims = f.claims,
                       !.released = f.released, !.registered = f.registered,
                       !.levels_config = f.levels_config, !.later = f.later]

\* The call of thread t returns or raises r, its locals being f; a sequential
\* run logs the call.
Return(t, r, f) ==
    /\ pc' = [pc EXCEPT ![t] = "idle"]
    /\ result' = [result EXCEPT ![t] = r]
    /\ frame' = [frame EXCEPT ![t] = AfterReturn(f)]
    /\ log' = IF sequential
              THEN Append(log, [call |-> AfterReturn(f), result |-> r])
              ELSE log

\* A lock that excludes nobody.
LockIgnored(spot) == TRUE

\* threading.Lock: acquire succeeds only on a lock nobody holds.
LockFree(spot) == spot.lock = NoThread

\* An id generator that gives the last id again.
uuidReused == IF uuids = 0 THEN uuids + 1 ELSE uuids

\* str(uuid.uuid4()): a value no earlier call has returned.
uuid4 == uuids + 1

\* ------------------------------------------------------------ ParkingSpot
\* A test that finds every spot free.
AlwaysFree(spot) == TRUE

\* assign_spot, line 64: the test made under the lock.
IsFree(spot) == ~spot.is_occupied

\* An assignment that returns True without setting the flag.
AssignedNoFlag(l, i) == [levels EXCEPT ![l][i].lock = NoThread]

\* An assignment that leaves the with block without releasing the lock.
AssignedKeepsLock(l, i) == [levels EXCEPT ![l][i].is_occupied = TRUE]

\* assign_spot, line 65, and leaving the with block.
Assigned(l, i) ==
    [levels EXCEPT ![l][i].is_occupied = TRUE, ![l][i].lock = NoThread]

Locked(l, i, t) == [levels EXCEPT ![l][i].lock = t]

\* A release that flips the flag.
ReleasedFlips(l, i) ==
    [levels EXCEPT ![l][i].is_occupied = ~@, ![l][i].lock = NoThread]

\* A release that leaves the flag as it is.
ReleasedKeepsFlag(l, i) == [levels EXCEPT ![l][i].lock = NoThread]

\* release_spot, line 72, and leaving the with block.
Released(l, i) ==
    [levels EXCEPT ![l][i].is_occupied = FALSE, ![l][i].lock = NoThread]

\* ------------------------------------------------------------ park_vehicle
\* A scan that takes a spot of any type.
RECURSIVE NextAny(_, _, _)
NextAny(l, i, st) ==
    IF l > NumLevels THEN <<NumLevels + 1, 1>>
    ELSE IF i > Len(levels[l]) THEN NextAny(l + 1, 1, st)
    ELSE <<l, i>>

\* A scan that stops after the first level.
RECURSIVE NextMatchFirstLevel(_, _, _)
NextMatchFirstLevel(l, i, st) ==
    IF l > 1 THEN <<NumLevels + 1, 1>>
    ELSE IF i > Len(levels[l]) THEN NextMatchFirstLevel(l + 1, 1, st)
    ELSE IF levels[l][i].spot_type = st THEN <<l, i>>
    ELSE NextMatchFirstLevel(l, i + 1, st)

\* A scan that passes over the first spot of the first level.
RECURSIVE NextMatchSkipsFirst(_, _, _)
NextMatchSkipsFirst(l, i, st) ==
    IF l > NumLevels THEN <<NumLevels + 1, 1>>
    ELSE IF i > Len(levels[l]) THEN NextMatchSkipsFirst(l + 1, 1, st)
    ELSE IF levels[l][i].spot_type = st /\ <<l, i>> # <<1, 1>> THEN <<l, i>>
    ELSE NextMatchSkipsFirst(l, i + 1, st)

\* The loops of park_vehicle (line 132) and find_and_assign_spot (lines 87-88):
\* the first position at or after (l, i), levels in order and the spots of a
\* level in order, that holds a spot of type st; <<NumLevels + 1, 1>> if none.
RECURSIVE NextMatch(_, _, _)
NextMatch(l, i, st) ==
    IF l > NumLevels THEN <<NumLevels + 1, 1>>
    ELSE IF i > Len(levels[l]) THEN NextMatch(l + 1, 1, st)
    ELSE IF levels[l][i].spot_type = st THEN <<l, i>>
    ELSE NextMatch(l, i + 1, st)

ScanFrom(t, l, i) ==
    LET p == NextMatch(l, i, required_spot_type(frame[t].vehicle))
    IN  [frame EXCEPT ![t].level = p[1], ![t].index = p[2]]

\* Threads are alike: the one that makes its first call next is the lowest
\* that has made none.
Started(t) == pc[t] # "idle" \/ result[t].kind # "None"

AllIdle == \A t \in Threads : pc[t] = "idle"

MayCall(t) ==
    /\ pc[t] = "idle"
    /\ \A u \in Threads : u < t => Started(u)
    /\ sequential => AllIdle

\* A thread calls park_vehicle(vehicle).
ParkCall(t) ==
    /\ MayCall(t)
    /\ initialized
    /\ calls < MaxCalls
    /\ calls' = calls + 1
    /\ \E v \in Vehicles :
         LET p == NextMatch(1, 1, required_spot_type(v))
         IN  frame' = [frame EXCEPT ![t] =
                 [EmptyFrame EXCEPT !.op = "park", !.vehicle = v,
                                    !.level = p[1], !.index = p[2]]]
    /\ pc' = [pc EXCEPT ![t] = "park_scan"]
    /\ result' = [result EXCEPT ![t] = NoResult]
    /\ UNCHANGED <<levels, tickets, clock, uuids, consumed, wins, log, sequential, horizon, instance, initialized>>

\* assign_spot, lines 63-64 and 67, on the next spot of the needed type: the
\* thread takes the spot's lock and finds the spot taken; the lock is released,
\* the call returns False and the scan moves on.
AssignFail(t) ==
    /\ pc[t] = "park_scan"
    /\ frame[t].level <= NumLevels
    /\ LockFree(SpotAt(frame[t].level, frame[t].index))
    /\ ~IsFree(SpotAt(frame[t].level, frame[t].index))
    /\ frame' = ScanFrom(t, frame[t].level, frame[t].index + 1)
    /\ UNCHANGED <<levels, tickets, clock, uuids, pc, result, consumed, calls, wins, log, sequential, horizon, instance, initialized>>

\* assign_spot, lines 63-64: the thread takes the spot's lock and sees the
\* spot free.
AssignTest(t) ==
    /\ pc[t] = "park_scan"
    /\ frame[t].level <= NumLevels
    /\ LockFree(SpotAt(frame[t].level, frame[t].index))
    /\ IsFree(SpotAt(frame[t].level, frame[t].index))
    /\ levels' = Locked(frame[t].level, frame[t].index, t)
    /\ pc' = [pc EXCEPT ![t] = "assign_set"]
    /\ UNCHANGED <<tickets, clock, uuids, frame, result, consumed, calls, wins, log, sequential, horizon, instance, initialized>>

\* assign_spot, lines 65-66: the flag is set, the lock released, True returned;
\* find_and_assign_spot returns the spot, which park_vehicle holds from then on.
AssignSet(t) ==
    /\ pc[t] = "assign_set"
    /\ levels' = Assigned(frame[t].level, frame[t].index)
    /\ wins' = [wins EXCEPT ![frame[t].level][frame[t].index] = @ + 1]
    /\ frame' = [frame EXCEPT ![t].claims = @ + 1,
                              ![t].spot = SpotAt(frame[t].level, frame[t].index)]
    /\ pc' = [pc EXCEPT ![t] = "park_ticket"]
    /\ UNCHANGED <<tickets, clock, uuids, result, consumed, calls, log, sequential, horizon, instance, initialized>>

\* park_vehicle, line 138: no level gave a spot.
ParkFull(t) ==
    /\ pc[t] = "park_scan"
    /\ frame[t].level > NumLevels
    /\ Return(t, [kind |-> "ParkingFull", raises |-> "Exception"], frame[t])
    /\ UNCHANGED <<levels, tickets, clock, uuids, consumed, calls, wins, sequential, horizon, instance, initialized>>

\* datetime.now(): the readings the clock can give next; it never runs back.
Now == clock..horizon

\* Ticket.__init__, lines 95-98.
Ticket(vehicle, spot, now) ==
    [ticket_id |-> uuid4, vehicle_id |-> vehicle.vehicle_id,
     spot_id |-> spot.spot_id, entry_time |-> now]

\* An insertion that is lost.
InsertLost(reg, ticket) == reg

\* self.tickets[ticket.ticket_id] = ticket
Insert(reg, ticket) ==
    [id \in DOMAIN reg \cup {ticket.ticket_id} |->
        IF id = ticket.ticket_id THEN ticket ELSE reg[id]]

\* park_vehicle, lines 135-137: the ticket is made, put in the registry and
\* returned.
ParkRegister(t) ==
    /\ pc[t] = "park_ticket"
    /\ \E now \in Now :
         LET ticket == Ticket(frame[t].vehicle, frame[t].spot, now)
         IN  /\ tickets' = Insert(tickets, ticket)
             /\ Return(t, [kind |-> "Ticket", ticket |-> ticket],
                       [frame[t] EXCEPT !.registered = @ + 1])
             /\ clock' = now
    /\ uuids' = uuids + 1
    /\ UNCHANGED <<levels, consumed, calls, wins, sequential, horizon, instance, initialized>>

\* ------------------------------------------------------------ exit_vehicle
\* A lookup that ends after the first level.
RECURSIVE FindSpotFirstLevel(_, _, _)
FindSpotFirstLevel(l, i, spot_id) ==
    IF l > 1 THEN <<NumLevels + 1, 1>>
    ELSE IF i > Len(levels[l]) THEN <<NumLevels + 1, 1>>
    ELSE IF levels[l][i].spot_id = spot_id THEN <<l, i>>
    ELSE FindSpotFirstLevel(l, i + 1, spot_id)

\* A lookup that finds no spot.
FindNothing(l, i, spot_id) == <<NumLevels + 1, 1>>

\* The loops of lines 154-156 and 164-166: the first position at or after
\* (l, i) whose spot has the id spot_id; <<NumLevels + 1, 1>> if none.
RECURSIVE FindSpot(_, _, _)
FindSpot(l, i, spot_id) ==
    IF l > NumLevels THEN <<NumLevels + 1, 1>>
    ELSE IF i > Len(levels[l]) THEN FindSpot(l + 1, 1, spot_id)
    ELSE IF levels[l][i].spot_id = spot_id THEN <<l, i>>
    ELSE FindSpot(l, i + 1, spot_id)

\* get_spot_type, lines 162-168.
get_spot_type(spot_id) ==
    LET p == FindSpot(1, 1, spot_id)
    IN  IF p[1] > NumLevels THEN "None" ELSE SpotAt(p[1], p[2]).spot_type

\* exit_vehicle, lines 149-150.
Rate(spot_type) ==
    CASE spot_type = "CAR" -> 2
      [] spot_type = "BUS" -> 5
      [] spot_type = "MOTORCYCLE" -> 1
      [] OTHER -> 0

\* An amount without the floor of one hour.
AmountNoFloor(hours, rate) == hours * rate

\* exit_vehicle, line 151.
AmountDue(hours, rate) == Max(1, hours) * rate

\* A pop that empties the registry.
PopAll(reg, ticket_id) == << >>

\* A pop that leaves the ticket in the registry.
PopKeeps(reg, ticket_id) == reg

\* self.tickets.pop(ticket_id, None): the registry without ticket_id.
Pop(reg, ticket_id) == [id \in DOMAIN reg \ {ticket_id} |-> reg[id]]

\* Receipt.__init__, lines 102-105.
Receipt(ticket, exit_time, amount) ==
    [ticket_id |-> ticket.ticket_id, exit_time |-> exit_time, amount_due |-> amount]

\* The ticket ids a caller can pass: those of the tickets park_vehicle has
\* returned, and a fabricated one.
KnownIds == {FabricatedId} \cup DOMAIN tickets \cup consumed

\* A thread calls exit_vehicle(ticket_id).
ExitCall(t) ==
    /\ MayCall(t)
    /\ initialized
    /\ calls < MaxCalls
    /\ calls' = calls + 1
    /\ \E id \in KnownIds :
         frame' = [frame EXCEPT ![t] =
             [EmptyFrame EXCEPT !.op = "exit", !.ticket_id = id,
                                !.outstanding = (id \in DOMAIN tickets)]]
    /\ pc' = [pc EXCEPT ![t] = "exit_pop"]
    /\ result' = [result EXCEPT ![t] = NoResult]
    /\ UNCHANGED <<levels, tickets, clock, uuids, consumed, wins, log, sequential, horizon, instance, initialized>>

\* exit_vehicle, line 142: the ticket is in the registry and is taken out.
ExitPop(t) ==
    /\ pc[t] = "exit_pop"
    /\ frame[t].ticket_id \in DOMAIN tickets
    /\ frame' = [frame EXCEPT ![t].ticket = tickets[frame[t].ticket_id]]
    /\ tickets' = Pop(tickets, frame[t].ticket_id)
    /\ consumed' = consumed \cup {frame[t].ticket_id}
    /\ pc' = [pc EXCEPT ![t] = "exit_time"]
    /\ UNCHANGED <<levels, clock, uuids, result, calls, wins, log, sequential, horizon, instance, initialized>>

\* exit_vehicle, lines 142-144: the registry has no such ticket.
ExitInvalid(t) ==
    /\ pc[t] = "exit_pop"
    /\ frame[t].ticket_id \notin DOMAIN tickets
    /\ Return(t, [kind |-> "InvalidTicket", raises |-> "KeyError"], frame[t])
    /\ UNCHANGED <<levels, tickets, clock, uuids, consumed, calls, wins, sequential, horizon, instance, initialized>>

\* exit_vehicle, lines 146-151: the clock is read and the amount computed; the
\* release loop starts.
ExitTime(t) ==
    /\ pc[t] = "exit_time"
    /\ \E now \in Now :
         LET ticket == frame[t].ticket
             hours == now - ticket.entry_time
             rate == Rate(get_spot_type(ticket.spot_id))
             p == FindSpot(1, 1, ticket.spot_id)
         IN  /\ frame' = [frame EXCEPT ![t].exit_time = now,
                                      ![t].amount = AmountDue(hours, rate),
                                      ![t].level = p[1], ![t].index = p[2]]
             /\ clock' = now
    /\ pc' = [pc EXCEPT ![t] = "exit_release"]
    /\ UNCHANGED <<levels, tickets, uuids, result, consumed, calls, wins, log, sequential, horizon, instance, initialized>>

\* release_spot, lines 71-72, the break of line 158 and the rest of the loop
\* of line 154: the thread takes the lock of the ticket's spot, clears the flag
\* and releases the lock; the loop goes on with the next level.
ExitRelease(t) ==
    /\ pc[t] = "exit_release"
    /\ frame[t].level <= NumLevels
    /\ LockFree(SpotAt(frame[t].level, frame[t].index))
    /\ levels' = Released(frame[t].level, frame[t].index)
    /\ wins' = [wins EXCEPT ![frame[t].level][frame[t].index] = 0]
    /\ LET p == FindSpot(frame[t].level + 1, 1, frame[t].ticket.spot_id)
       IN  frame' = [frame EXCEPT ![t].released = @ + 1,
                                  ![t].level = p[1], ![t].index = p[2]]
    /\ UNCHANGED <<tickets, clock, uuids, pc, result, consumed, calls, log, sequential, horizon, instance, initialized>>

\* exit_vehicle, line 160.
ExitReturn(t) ==
    /\ pc[t] = "exit_release"
    /\ frame[t].level > NumLevels
    /\ Return(t, [kind |-> "Receipt",
                  receipt |-> Receipt(frame[t].ticket, frame[t].exit_time, frame[t].amount),
                  ticket |-> frame[t].ticket],
              frame[t])
    /\ UNCHANGED <<levels, tickets, clock, uuids, consumed, calls, wins, sequential, horizon, instance, initialized>>

\* ------------------------------------------------------------ ParkingLot()
\* A test that never finds the attribute.
NeverInitialized == FALSE

\* hasattr(self, '_initialized'), line 122.
HasInitialized == initialized

\* A thread that is in one of the loops over self.levels (lines 132 and 154)
\* goes through the list it started on.
Scanning(t) == pc[t] \in {"park_scan", "assign_set", "exit_release"}

\* A thread calls ParkingLot(levels_config). __new__, lines 116-119: under the
\* class lock, the object is made unless there is one already.
New(t) ==
    /\ MayCall(t)
    /\ calls < MaxCalls
    /\ calls' = calls + 1
    /\ instance' = IF instance = NoInstance THEN TheInstance ELSE instance
    /\ \E levels_config \in ConstructorArgs :
         frame' = [frame EXCEPT ![t] =
             [EmptyFrame EXCEPT !.op = "construct", !.levels_config = levels_config,
                                !.later = initialized]]
    /\ pc' = [pc EXCEPT ![t] = "init_check"]
    /\ result' = [result EXCEPT ![t] = NoResult]
    /\ UNCHANGED <<levels, tickets, clock, uuids, consumed, wins, log, sequential, horizon, initialized>>

\* __init__, lines 122-123: the object is initialized already.
InitSkip(t) ==
    /\ pc[t] = "init_check"
    /\ HasInitialized
    /\ Return(t, [kind |-> "ParkingLot", lot |-> instance], frame[t])
    /\ UNCHANGED <<levels, tickets, clock, uuids, consumed, calls, wins, sequential, horizon, instance, initialized>>

\* __init__, line 122: the object has no attribute _initialized.
InitBegin(t) ==
    /\ pc[t] = "init_check"
    /\ ~HasInitialized
    /\ pc' = [pc EXCEPT ![t] = "init_levels"]
    /\ UNCHANGED <<levels, tickets, clock, uuids, frame, result, consumed, calls, wins, log, sequential, horizon,
                   instance, initialized>>

\* __init__, lines 124-126: self.levels is bound to a new list of levels.  The
\* step is taken while no thread is in a loop over the list bound before: the
\* runs in which a second initialization replaces the list under such a loop,
\* which goes on over the old list, are left out.
InitLevels(t) ==
    /\ pc[t] = "init_levels"
    /\ \A u \in Threads : ~Scanning(u)
    /\ levels' = ParkingLotLevels(ConfigOr(frame[t].levels_config))
    /\ wins' = NoWins(levels')
    /\ pc' = [pc EXCEPT ![t] = "init_tickets"]
    /\ UNCHANGED <<tickets, clock, uuids, frame, result, consumed, calls, log, sequential, horizon,
                   instance, initialized>>

\* __init__, line 127: self.tickets is bound to a new, empty dict.
InitTickets(t) ==
    /\ pc[t] = "init_tickets"
    /\ tickets' = << >>
    /\ pc' = [pc EXCEPT ![t] = "init_flag"]
    /\ UNCHANGED <<levels, clock, uuids, frame, result, consumed, calls, wins, log, sequential, horizon,
                   instance, initialized>>

\* __init__, line 128, and the return of the constructor.
InitFlag(t) ==
    /\ pc[t] = "init_flag"
    /\ initialized' = TRUE
    /\ Return(t, [kind |-> "ParkingLot", lot |-> instance], frame[t])
    /\ UNCHANGED <<levels, tickets, clock, uuids, consumed, calls, wins, sequential, horizon, instance>>

\* ------------------------------------------------------------- exceptions
\* The classes of Python that an object of class c is an instance of, for the
\* classes raised in lines 50, 138 and 144.
Bases(c) ==
    CASE c = "Exception" -> {"Exception", "BaseException"}
      [] c = "KeyError" -> {"KeyError", "LookupError", "Exception", "BaseException"}
      [] c = "ValueError" -> {"ValueError", "Exception", "BaseException"}

\* Whether the clause "except handled" takes an exception of class raised.
Catches(handled, raised) == handled \in Bases(raised)

\* --------------------------------------------------------- VehicleFactory
\* VehicleFactory.create, lines 48-51.
create(vtype, plate) ==
    IF lower(vtype) \in mapping
    THEN [kind |-> "Vehicle", vehicle |-> [vehicle_id |-> plate, kind |-> lower(vtype)]]
    ELSE [kind |-> "UnknownVehicleType", raises |-> "ValueError", vtype |-> vtype]

\* A thread calls VehicleFactory.create(vtype, plate).
Create(t) ==
    /\ MayCall(t)
    /\ calls < MaxCalls
    /\ calls' = calls + 1
    /\ \E vtype \in Tags : \E plate \in Plates :
         Return(t, create(vtype, plate), [EmptyFrame EXCEPT !.op = "create"])
    /\ UNCHANGED <<levels, tickets, clock, uuids, consumed, wins, sequential, horizon, instance, initialized>>

Park(t) ==
    \/ ParkCall(t)
    \/ AssignFail(t)
    \/ AssignTest(t)
    \/ AssignSet(t)
    \/ ParkFull(t)
    \/ ParkRegister(t)

Exit(t) ==
    \/ ExitCall(t)
    \/ ExitPop(t)
    \/ ExitInvalid(t)
    \/ ExitTime(t)
    \/ ExitRelease(t)
    \/ ExitReturn(t)

Next ==
    \/ \E t \in Threads : Park(t)
    \/ \E t \in Threads : Exit(t)

\* Any interleaving of the threads' calls, within the hour.
Spec == Init /\ [][Next]_vars

\* The calls made one at a time, over MaxTime hours.
SpecSeq == InitSeq /\ [][Next]_vars

\* What a thread does once it has made a call: the steps up to the return.
Step(t) ==
    \/ AssignFail(t)
    \/ AssignTest(t)
    \/ AssignSet(t)
    \/ ParkFull(t)
    \/ ParkRegister(t)
    \/ ExitPop(t)
    \/ ExitInvalid(t)
    \/ ExitTime(t)
    \/ ExitRelease(t)
    \/ ExitReturn(t)

\* Any interleaving in which a thread that can take a step is not kept from it
\* for ever: the interpreter switches between the threads that can run.
SpecFair == Init /\ [][Next]_vars /\ \A t \in Threads : WF_vars(Step(t))

\* ------------------------------------------- ParkingSpot, called directly
\* The methods of a spot, called one at a time by whoever holds the spot; each
\* call is logged with the levels before and after it.
SpotCall(op, p, r) ==
    /\ calls < MaxCalls
    /\ calls' = calls + 1
    /\ log' = Append(log, [call |-> [op |-> op, spot |-> p], result |-> r,
                           before |-> levels, after |-> levels'])
    /\ UNCHANGED <<tickets, clock, uuids, pc, frame, result, consumed, sequential, horizon,
                   instance, initialized>>

\* assign_spot, lines 61-67, on the spot at p.
assign_spot(p) ==
    /\ LockFree(SpotAt(p[1], p[2]))
    /\ IF IsFree(SpotAt(p[1], p[2]))
       THEN /\ levels' = Assigned(p[1], p[2])
            /\ wins' = [wins EXCEPT ![p[1]][p[2]] = @ + 1]
            /\ SpotCall("assign_spot", p, TRUE)
       ELSE /\ UNCHANGED <<levels, wins>>
            /\ SpotCall("assign_spot", p, FALSE)

\* release_spot, lines 69-72, on the spot at p.
release_spot(p) ==
    /\ LockFree(SpotAt(p[1], p[2]))
    /\ levels' = Released(p[1], p[2])
    /\ wins' = [wins EXCEPT ![p[1]][p[2]] = 0]
    /\ SpotCall("release_spot", p, "None")

NextSpot ==
    \/ \E p \in AllSpots : assign_spot(p)
    \/ \E p \in AllSpots : release_spot(p)

\* The spots of a lot, assigned and released in any order, one call at a time.
SpecSpot == InitSeq /\ [][NextSpot]_vars

Construct(t) ==
    \/ New(t)
    \/ InitSkip(t)
    \/ InitBegin(t)
    \/ InitLevels(t)
    \/ InitTickets(t)
    \/ InitFlag(t)

\* The threads construct the lot and the vehicles themselves.
NextLot ==
    \/ \E t \in Threads : Construct(t)
    \/ \E t \in Threads : Create(t)
    \/ \E t \in Threads : Park(t)
    \/ \E t \in Threads : Exit(t)

\* Any interleaving of the threads' calls, the constructor's among them, from
\* the state in which the class has no object.
SpecLot == InitLot /\ [][NextLot]_vars

\* ------------------------------------------------------------- properties
Occupied(p) == SpotAt(p[1], p[2]).is_occupied

\* The tickets of the registry bound to the spot at p.
Binders(p) == {id \in DOMAIN tickets : tickets[id].spot_id = SpotAt(p[1], p[2]).spot_id}

\* The occupied spots that the ticket id of the registry is bound to.
BoundSpots(id) ==
    {p \in AllSpots : SpotAt(p[1], p[2]).spot_id = tickets[id].spot_id /\ Occupied(p)}

\* p comes before q in the order of the scan.
Before(p, q) == p[1] < q[1] \/ (p[1] = q[1] /\ p[2] < q[2])

Position(t) == <<frame[t].level, frame[t].index>>

\* C1, as stated: in every reachable state of any interleaving, the tickets of
\* the registry and the occupied spots are in bijection: each ticket is bound to
\* exactly one occupied spot and each occupied spot is bound by exactly one
\* ticket.
C1_Bijection ==
    /\ \A id \in DOMAIN tickets : Cardinality(BoundSpots(id)) = 1
    /\ \A p \in AllSpots : Occupied(p) => Cardinality(Binders(p)) = 1

\* C1, amended: in every reachable state each ticket of the registry is bound to
\* exactly one occupied spot and each occupied spot is bound by at most one
\* ticket; it is bound by exactly one in every state in which no call of
\* park_vehicle or exit_vehicle is in progress.
C1_BijectionWhenIdle ==
    /\ \A id \in DOMAIN tickets : Cardinality(BoundSpots(id)) = 1
    /\ \A p \in AllSpots : Occupied(p) => Cardinality(Binders(p)) <= 1
    /\ AllIdle => \A p \in AllSpots : Occupied(p) => Cardinality(Binders(p)) = 1

\* A park and an exit have both completed, a ticket is outstanding and no call
\* is in progress.
C1_Witness == AllIdle /\ DOMAIN tickets # {} /\ consumed # {}

\* C2: between two releases of a spot at most one assign_spot on it succeeds:
\* once one has, the spot stays occupied and no other thread gets past the test
\* of the flag, whatever the interleaving.
C2_OneClaimPerRelease ==
    /\ \A p \in AllSpots :
         /\ wins[p[1]][p[2]] <= 1
         /\ wins[p[1]][p[2]] = 1 => Occupied(p)
    /\ \A t \in Threads : pc[t] = "assign_set" =>
         /\ wins[frame[t].level][frame[t].index] = 0
         /\ \A u \in Threads : (u # t /\ pc[u] = "assign_set") => Position(u) # Position(t)

\* A spot has been claimed, and a thread that needed a spot of its type has been
\* refused it and has moved on.
C2_Witness ==
    \E t \in Threads : \E p \in AllSpots :
        /\ frame[t].op = "park" /\ pc[t] # "idle"
        /\ SpotAt(p[1], p[2]).spot_type = required_spot_type(frame[t].vehicle)
        /\ Before(p, Position(t))
        /\ wins[p[1]][p[2]] = 1

\* The call of thread t has the ticket it asked for.
HoldsTicket(t) == pc[t] \in {"exit_time", "exit_release"} \/ result[t].kind = "Receipt"

\* C3: of the exit_vehicle calls made by different threads with the same ticket
\* id while that id is outstanding, at most one gets the ticket and returns a
\* Receipt, and it releases the spot once; every other fails with InvalidTicket,
\* does so only because a call has taken the ticket out of the registry, and
\* releases nothing.
C3_OneExitWins ==
    \A a \in Threads : (frame[a].op = "exit" /\ frame[a].outstanding) =>
        /\ \A b \in Threads :
             (b # a /\ frame[b].op = "exit" /\ frame[b].ticket_id = frame[a].ticket_id)
             => ~(HoldsTicket(a) /\ HoldsTicket(b))
        /\ pc[a] = "idle" => result[a].kind \in {"Receipt", "InvalidTicket"}
        /\ result[a].kind = "Receipt" =>
             frame[a].released = 1 /\ frame[a].ticket_id \in consumed
        /\ result[a].kind = "InvalidTicket" =>
             frame[a].released = 0 /\ frame[a].ticket_id \in consumed

\* Two threads called exit_vehicle with the same id while it was outstanding;
\* both have returned, one with a Receipt and one with InvalidTicket.
C3_Witness ==
    \E a, b \in Threads :
        /\ a # b
        /\ frame[a].op = "exit" /\ frame[b].op = "exit"
        /\ frame[a].ticket_id = frame[b].ticket_id
        /\ frame[a].outstanding /\ frame[b].outstanding
        /\ result[a].kind = "Receipt" /\ result[b].kind = "InvalidTicket"

\* C4: in every reachable state of any interleaving, no two tickets of the
\* registry are bound to the same spot id.
C4_NoDoubleAssignment ==
    \A i, j \in DOMAIN tickets : i # j => tickets[i].spot_id # tickets[j].spot_id

\* Two tickets for spots of the same type are outstanding together.
C4_Witness ==
    \E i, j \in DOMAIN tickets :
        /\ i # j
        /\ get_spot_type(tickets[i].spot_id) = get_spot_type(tickets[j].spot_id)

\* C5: the ticket that a successful park_vehicle(v) returns names an existing
\* spot whose type is v.required_spot_type().
C5_TicketSpotClass ==
    \A t \in Threads : result[t].kind = "Ticket" =>
        \E p \in AllSpots :
            /\ SpotAt(p[1], p[2]).spot_id = result[t].ticket.spot_id
            /\ SpotAt(p[1], p[2]).spot_type = required_spot_type(frame[t].vehicle)

\* A bus has been parked in a lot whose levels start with car spots.
C5_Witness ==
    \E t \in Threads :
        /\ result[t].kind = "Ticket"
        /\ frame[t].vehicle.kind = "bus"
        /\ \E p \in AllSpots : SpotAt(p[1], p[2]).spot_type = "CAR"

SpotsOf(st) == {p \in AllSpots : SpotAt(p[1], p[2]).spot_type = st}

FreeOf(st) == {p \in SpotsOf(st) : ~Occupied(p)}

IsPark(e) == e.call.op = "park"

\* The entries of the log are all calls of park_vehicle for a spot of type st.
OnlyParksOf(st) ==
    \A n \in 1..Len(log) : IsPark(log[n]) /\ required_spot_type(log[n].call.vehicle) = st

\* C6: in a sequential run park_vehicle fails with "Parking Full" only when no
\* spot of the vehicle's type is free, and never passes over a free spot of that
\* type, so it fails exactly when none is free; on a lot with K spots of a type,
\* all free, the first K of K+1 parks of that type and nothing else succeed with
\* pairwise distinct spot ids and the one after them fails.
C6_CapacityBoundary ==
    /\ \A t \in Threads : pc[t] = "park_scan" =>
         \A p \in FreeOf(required_spot_type(frame[t].vehicle)) : ~Before(p, Position(t))
    /\ \A t \in Threads : (pc[t] = "idle" /\ result[t].kind = "ParkingFull" /\ AllIdle
                           /\ log[Len(log)].call = frame[t] /\ log[Len(log)].result = result[t])
         => FreeOf(required_spot_type(frame[t].vehicle)) = {}
    /\ \A st \in SpotType : OnlyParksOf(st) =>
         \A n \in 1..Len(log) :
            /\ n <= Cardinality(SpotsOf(st)) => log[n].result.kind = "Ticket"
            /\ n > Cardinality(SpotsOf(st)) => log[n].result.kind = "ParkingFull"
            /\ \A m \in 1..Len(log) :
                 (m # n /\ log[m].result.kind = "Ticket" /\ log[n].result.kind = "Ticket")
                 => log[m].result.ticket.spot_id # log[n].result.ticket.spot_id

\* A lot with two spots of a type has seen three parks of that type and nothing
\* else: the last has failed.
C6_Witness ==
    \E st \in SpotType :
        /\ Cardinality(SpotsOf(st)) = Len(log) - 1
        /\ Len(log) > 1
        /\ OnlyParksOf(st)
        /\ log[Len(log)].result.kind = "ParkingFull"

\* C7: an exit_vehicle call whose ticket id is not in the registry when the call
\* is made (never issued, or already exited) fails with InvalidTicket without
\* taking a ticket out of the registry or releasing a spot; a call that returns
\* a Receipt had its id outstanding; an id that has been taken out of the
\* registry is never in it again, and the fabricated id never is.
C7_InvalidExit ==
    /\ consumed \cap DOMAIN tickets = {}
    /\ FabricatedId \notin DOMAIN tickets
    /\ \A t \in Threads : (frame[t].op = "exit" /\ ~frame[t].outstanding) =>
         /\ pc[t] \in {"exit_pop", "idle"}
         /\ pc[t] = "idle" => result[t].kind = "InvalidTicket"
         /\ frame[t].released = 0
    /\ \A t \in Threads : result[t].kind = "Receipt" => frame[t].outstanding

\* A second exit with the id of a ticket already exited has failed.
C7_Witness ==
    \E t \in Threads :
        /\ frame[t].op = "exit"
        /\ frame[t].ticket_id \in consumed
        /\ ~frame[t].outstanding
        /\ result[t].kind = "InvalidTicket"

IsRoundTrip(n) ==
    /\ n + 1 <= Len(log)
    /\ IsPark(log[n]) /\ log[n].result.kind = "Ticket"
    /\ log[n + 1].call.op = "exit" /\ log[n + 1].result.kind = "Receipt"
    /\ log[n + 1].result.receipt.ticket_id = log[n].result.ticket.ticket_id

\* C8: in a sequential run, once t = park_vehicle(v) has been followed by
\* exit_vehicle(t.ticket_id), the spot t.spot_id is free, and a park_vehicle of a
\* vehicle of the same type that comes next returns a ticket for that same spot.
C8_RoundTrip ==
    \A n \in 1..Len(log) : IsRoundTrip(n) =>
        /\ (Len(log) = n + 1 /\ AllIdle) =>
             \E p \in AllSpots :
                /\ SpotAt(p[1], p[2]).spot_id = log[n].result.ticket.spot_id
                /\ ~Occupied(p)
        /\ ( /\ Len(log) >= n + 2
             /\ IsPark(log[n + 2])
             /\ required_spot_type(log[n + 2].call.vehicle)
                  = required_spot_type(log[n].call.vehicle) )
           => /\ log[n + 2].result.kind = "Ticket"
              /\ log[n + 2].result.ticket.spot_id = log[n].result.ticket.spot_id

\* A park, the exit of its ticket and a park of the same type have followed one
\* another, in a lot with a second spot of that type.
C8_Witness ==
    \E n \in 1..Len(log) :
        /\ IsRoundTrip(n)
        /\ Len(log) >= n + 2
        /\ IsPark(log[n + 2])
        /\ log[n + 2].call.vehicle.kind = log[n].call.vehicle.kind
        /\ Cardinality(SpotsOf(required_spot_type(log[n].call.vehicle))) > 1

\* The hourly rate of a spot type, as the claim gives it.
HourlyRate(st) ==
    CASE st = "MOTORCYCLE" -> 1
      [] st = "CAR" -> 2
      [] st = "BUS" -> 5

\* C9: the amount of every Receipt is max(1, T) x R, T being the hours between
\* the ticket's entry time and the receipt's exit time and R the rate of the type
\* of the ticket's spot (Motorcycle 1, Car 2, Bus 5); it is never below R.
C9_Fee ==
    \A t \in Threads : result[t].kind = "Receipt" =>
        \E p \in AllSpots :
            LET T == result[t].receipt.exit_time - result[t].ticket.entry_time
                R == HourlyRate(SpotAt(p[1], p[2]).spot_type)
            IN  /\ SpotAt(p[1], p[2]).spot_id = result[t].ticket.spot_id
                /\ result[t].receipt.amount_due = (IF T < 1 THEN 1 ELSE T) * R
                /\ result[t].receipt.amount_due >= R

\* A bus has left within the hour, and paid for one hour.
C9_Witness ==
    \E t \in Threads :
        /\ result[t].kind = "Receipt"
        /\ result[t].receipt.exit_time = result[t].ticket.entry_time
        /\ result[t].receipt.amount_due = 5

\* The other case of C9: a car has left after two hours.
C9_WitnessLong ==
    \E t \in Threads :
        /\ result[t].kind = "Receipt"
        /\ result[t].receipt.exit_time - result[t].ticket.entry_time = 2
        /\ result[t].receipt.amount_due = 4

\* C10: a park_vehicle call releases no spot; while it scans it has claimed no
\* spot; when it fails with "Parking Full" it has claimed no spot and registered
\* no ticket; when it returns a ticket it has claimed exactly one spot and
\* registered exactly one ticket, the one it returns, and that ticket is in the
\* registry, its spot occupied, until an exit takes it out.
C10_ParkAllOrNothing ==
    \A t \in Threads : frame[t].op = "park" =>
        /\ frame[t].released = 0
        /\ pc[t] \in {"park_scan", "assign_set"} =>
             frame[t].claims = 0 /\ frame[t].registered = 0
        /\ pc[t] = "park_ticket" =>
             frame[t].claims = 1 /\ frame[t].registered = 0 /\ Occupied(Position(t))
        /\ pc[t] = "idle" => result[t].kind \in {"Ticket", "ParkingFull"}
        /\ result[t].kind = "ParkingFull" =>
             frame[t].claims = 0 /\ frame[t].registered = 0
        /\ result[t].kind = "Ticket" =>
             /\ frame[t].claims = 1 /\ frame[t].registered = 1
             /\ \/ result[t].ticket.ticket_id \in consumed
                \/ /\ result[t].ticket.ticket_id \in DOMAIN tickets
                   /\ tickets[result[t].ticket.ticket_id] = result[t].ticket
                   /\ \E p \in AllSpots :
                        /\ SpotAt(p[1], p[2]).spot_id = result[t].ticket.spot_id
                        /\ Occupied(p)

\* One thread's park has returned a ticket and another's has failed.
C10_Witness ==
    \E t, u \in Threads :
        /\ frame[t].op = "park" /\ result[t].kind = "Ticket"
        /\ frame[u].op = "park" /\ result[u].kind = "ParkingFull"
        /\ frame[u].vehicle.kind = frame[t].vehicle.kind

\* The call of thread t has ended with an exception.
Failed(t) == result[t].kind \in {"ParkingFull", "InvalidTicket", "UnknownVehicleType"}

\* C11: the three failures are error kinds a caller can tell apart: the classes
\* raised for two different failures differ, and the except clause that takes
\* one of them does not take the other, so that none is reported as a generic
\* failure that stands for the others as well.
C11_DistinctErrorKinds ==
    \A t, u \in Threads :
        (Failed(t) /\ Failed(u) /\ result[t].kind # result[u].kind) =>
            /\ result[t].raises # result[u].raises
            /\ ~Catches(result[t].raises, result[u].raises)

\* A thread is in a call.
InCall(t) == pc[t] # "idle"

\* C12: under weak fairness of every thread, every call of park_vehicle and
\* exit_vehicle that has started returns or raises (a thread is again and again
\* outside a call, which says the same as InCall(t) ~> ~InCall(t)); in every
\* state in which a call is in progress some thread in a call can take a step;
\* and a park whose class has no free spot goes on with its scan or fails,
\* whatever the others do.
C12_NoBlocking ==
    /\ \A t \in Threads : []<>(~InCall(t))
    /\ []((\E t \in Threads : InCall(t)) => ENABLED (\E t \in Threads : Step(t)))
    /\ [](\A t \in Threads :
            (pc[t] = "park_scan" /\ FreeOf(required_spot_type(frame[t].vehicle)) = {})
            => ENABLED (AssignFail(t) \/ ParkFull(t)))

\* A thread in park_vehicle is at a spot whose lock another thread holds.
C12_Witness ==
    \E t, u \in Threads :
        /\ pc[t] = "assign_set" /\ pc[u] = "park_scan"
        /\ Position(u) = Position(t)
        /\ ~LockFree(SpotAt(frame[u].level, frame[u].index))

\* Thread t takes a step of a construction that was called after a construction
\* had completed.
LaterConstructionStep(t) ==
    /\ pc'[t] # pc[t]
    /\ frame'[t].op = "construct"
    /\ frame'[t].later

\* C13: once a construction of ParkingLot has completed, a construction called
\* later, whatever its configuration, changes neither the levels, nor any
\* spot's occupancy, nor the ticket registry, nor the object of the class; it
\* does not get to the statements that initialize, and it returns that object.
C13_NotReconfigured ==
    /\ [](\A t \in Threads :
            (frame[t].op = "construct" /\ frame[t].later) =>
                /\ pc[t] \in {"init_check", "idle"}
                /\ pc[t] = "idle" => result[t] = [kind |-> "ParkingLot", lot |-> TheInstance])
    /\ [][\A t \in Threads :
            LaterConstructionStep(t) =>
                /\ levels' = levels
                /\ tickets' = tickets
                /\ instance' = instance
                /\ initialized' = initialized]_vars

\* A construction with another configuration than the lot's has returned while
\* a ticket was in the registry.
C13_Witness ==
    \E t \in Threads :
        /\ frame[t].op = "construct" /\ frame[t].later
        /\ result[t].kind = "ParkingLot"
        /\ tickets # << >>
        /\ \E l \in 1..NumLevels :
             Len(levels[l]) # Len(ParkingLotLevels(ConfigOr(frame[t].levels_config))[l])

\* The letter of a class, as the claim gives it.
ClassLetter(st) ==
    CASE st = "MOTORCYCLE" -> "M"
      [] st = "CAR" -> "C"
      [] st = "BUS" -> "B"

\* The place of the spot at p among the spots of its class on its level,
\* counted from 1.
IndexInClass(p) ==
    Cardinality({j \in 1..p[2] : levels[p[1]][j].spot_type = SpotAt(p[1], p[2]).spot_type})

\* C14: the id of every spot is "L", the number of its level, "-", the letter of
\* its class and its index within that class on that level, counted from 1; the
\* ids of the spots of all levels are pairwise distinct: there are as many ids
\* as spots.
C14_SpotIds ==
    /\ \A p \in AllSpots :
         SpotAt(p[1], p[2]).spot_id =
             "L" \o ToString(p[1]) \o "-" \o ClassLetter(SpotAt(p[1], p[2]).spot_type)
                 \o ToString(IndexInClass(p))
    /\ Cardinality({SpotAt(p[1], p[2]).spot_id : p \in AllSpots}) = Cardinality(AllSpots)

\* The lot of the default configuration, whose last level has a tenth car
\* spot next to spots of the other classes, and a ticket names one of its spots.
C14_Witness ==
    /\ \E p \in AllSpots : p[1] = NumLevels /\ IndexInClass(p) = 10
    /\ \A st \in SpotType : SpotsOf(st) # {}
    /\ \E id \in DOMAIN tickets : FindSpot(1, 1, tickets[id].spot_id)[1] <= NumLevels

\* The call that thread t made last is the last call of the run, and has returned.
LastCall(t) ==
    /\ AllIdle
    /\ Len(log) > 0
    /\ log[Len(log)].call = frame[t]
    /\ log[Len(log)].result = result[t]

PopStep(t) == pc[t] = "exit_pop" /\ pc'[t] = "exit_time"

\* Thread t, in exit_vehicle, calls release_spot.
ReleaseStep(t) == pc[t] = "exit_release" /\ frame'[t].released = frame[t].released + 1

\* Thread t returns from exit_vehicle with a Receipt.
ReceiptStep(t) == pc[t] = "exit_release" /\ pc'[t] = "idle"

\* C16: a successful exit_vehicle(id) takes only the ticket id out of the
\* registry and sets only the spot that ticket is bound to to free: the step
\* that pops leaves every other ticket and every spot as they are, the step that
\* releases leaves the registry and every other spot as they are, the return
\* changes neither; and no step of any call changes a spot's id or type.
C16_ExitFrame ==
    /\ [][\A t \in Threads :
            /\ PopStep(t) =>
                 /\ frame[t].ticket_id \in DOMAIN tickets
                 /\ DOMAIN tickets' = DOMAIN tickets \ {frame[t].ticket_id}
                 /\ \A id \in DOMAIN tickets' : tickets'[id] = tickets[id]
                 /\ levels' = levels
            /\ ReleaseStep(t) =>
                 /\ tickets' = tickets
                 /\ \A p \in AllSpots :
                      IF SpotAt(p[1], p[2]).spot_id = frame[t].ticket.spot_id
                      THEN ~levels'[p[1]][p[2]].is_occupied
                      ELSE levels'[p[1]][p[2]] = levels[p[1]][p[2]]
            /\ ReceiptStep(t) =>
                 /\ tickets' = tickets /\ levels' = levels
                 /\ frame[t].released = 1]_vars
    /\ [][/\ DOMAIN levels' = DOMAIN levels
          /\ \A l \in DOMAIN levels :
               /\ Len(levels'[l]) = Len(levels[l])
               /\ \A i \in 1..Len(levels[l]) :
                    /\ levels'[l][i].spot_id = levels[l][i].spot_id
                    /\ levels'[l][i].spot_type = levels[l][i].spot_type]_vars

\* An exit has returned a Receipt while another ticket is in the registry and
\* its spot occupied.
C16_Witness ==
    \E t \in Threads :
        /\ result[t].kind = "Receipt"
        /\ \E id \in DOMAIN tickets :
             /\ id # result[t].receipt.ticket_id
             /\ BoundSpots(id) # {}

IsRelease(e) == e.call.op = "release_spot"

\* C17: release_spot is unconditional and idempotent: after it the spot is free
\* whatever it was before, and no other spot has changed; it raises nothing;
\* on a free spot it changes nothing; and a release that follows a release of
\* the same spot leaves the state the first one left.
C17_ReleaseIdempotent ==
    \A n \in 1..Len(log) : IsRelease(log[n]) =>
        LET p == log[n].call.spot
        IN  /\ ~log[n].after[p[1]][p[2]].is_occupied
            /\ log[n].after[p[1]][p[2]].lock = NoThread
            /\ log[n].result = "None"
            /\ \A q \in AllSpots : q # p => log[n].after[q[1]][q[2]] = log[n].before[q[1]][q[2]]
            /\ ~log[n].before[p[1]][p[2]].is_occupied => log[n].after = log[n].before
            /\ (n > 1 /\ log[n - 1].call = log[n].call) => log[n].after = log[n - 1].after
            /\ n = Len(log) => levels = log[n].after

\* A spot has been assigned and then released twice in a row.
C17_Witness ==
    \E n \in 1..Len(log) :
        /\ n >= 3
        /\ IsRelease(log[n]) /\ IsRelease(log[n - 1])
        /\ log[n].call = log[n - 1].call
        /\ log[n - 2].call.spot = log[n].call.spot
        /\ log[n - 2].result = TRUE

\* The ids of the tickets that park_vehicle has put in the registry.
Registered == 1..uuids

\* C18: the levels and the registry are initialized at most once, also when
\* threads construct ParkingLot at the same time as others construct it or
\* park: no construction replaces the levels or empties the registry once a
\* ticket is registered, so that a registered ticket stays in the registry
\* until an exit takes it out.
C18_InitializedOnce ==
    \A id \in Registered : id \in consumed \/ id \in DOMAIN tickets

OccupiedSpots == {p \in AllSpots : Occupied(p)}

\* The ids of the spots that the tickets of the registry name.
TicketSpotIds == {tickets[id].spot_id : id \in DOMAIN tickets}

\* C19: on a lot constructed once, in every reachable state of any interleaving
\* of park_vehicle and exit_vehicle calls, the states in the middle of a call
\* included, the spot that a ticket of the registry names exists and is
\* occupied, and there are at least as many occupied spots as tickets in the
\* registry.
C19_TicketSpotOccupied ==
    /\ \A id \in DOMAIN tickets :
         LET q == FindSpot(1, 1, tickets[id].spot_id)
         IN  q \in AllSpots /\ SpotAt(q[1], q[2]).is_occupied
    /\ Cardinality(OccupiedSpots) >= Cardinality(DOMAIN tickets)

\* A call is in progress, a ticket is in the registry, and a spot is occupied
\* that no ticket of the registry names.
C19_Witness ==
    /\ ~AllIdle
    /\ DOMAIN tickets # {}
    /\ Cardinality(OccupiedSpots) > Cardinality(DOMAIN tickets)

\* C20: on a lot constructed once, in every state in which no call is in
\* progress, the occupied spots are the spots that the tickets of the registry
\* name: no spot is occupied without a ticket, and the spot of every ticket
\* that has been taken out of the registry has been released.
C20_QuiescentMatch ==
    AllIdle =>
        /\ {SpotAt(p[1], p[2]).spot_id : p \in OccupiedSpots} = TicketSpotIds
        /\ \A t \in Threads : result[t].kind = "Receipt" =>
             \/ result[t].ticket.spot_id \in TicketSpotIds
             \/ \E p \in AllSpots \ OccupiedSpots :
                  SpotAt(p[1], p[2]).spot_id = result[t].ticket.spot_id

\* No call is in progress after parks and an exit: a ticket is in the registry,
\* and the exit has freed a spot of the second level.
C20_Witness ==
    /\ AllIdle
    /\ DOMAIN tickets # {}
    /\ \E t \in Threads :
         /\ result[t].kind = "Receipt"
         /\ \E p \in AllSpots \ OccupiedSpots :
              /\ p[1] = NumLevels
              /\ SpotAt(p[1], p[2]).spot_id = result[t].ticket.spot_id
====
